---- MODULE Spec2Model ----
(***************************************************************************)
(* Model of merkledag.Batch (src/unnamed/part_001): a buffer that batches  *)
(* node additions and commits them to the block store with a bounded       *)
(* number of asynchronous bulk writes.                                     *)
(*                                                                         *)
(* One caller thread runs Add and Commit.  Every launched commit is a      *)
(* goroutine that calls AddBlocks (line 60) and then sends the result on   *)
(* commitResults (line 61).  The caller's blocking receives (lines 51 and  *)
(* 91) are separate steps, enabled only when a result can be received.     *)
(***************************************************************************)
EXTENDS Integers, Sequences, FiniteSets, TLC

\* ---------------------------------------------------------------- bounds
MaxCalls == 4       \* Add and Commit calls made by the caller in one run
MaxNodeLen == 2     \* largest len(nd.RawData()) of a node handed to Add
MaxLimit == 2       \* largest MaxSize / MaxBlocks a batch is created with
MaxParallel == 2    \* largest value of ParallelBatchCommits

\* ------------------------------------------------------------- constants
Nil == "nil"                      \* the nil error
Errors == {"e1", "e2"}            \* errors AddBlocks can return
NilCid == 0                       \* the nil *cid.Cid

\* A node: its identifier and the length of its raw data.  The identifier
\* is derived from the content, so equal identifiers have equal lengths.
Nodes == {[cid |-> l + 1, len |-> l] : l \in 0..MaxNodeLen}

Cid(nd) == nd.cid
RawDataLen(nd) == nd.len

VARIABLES
    callLimit,             \* calls the caller makes at most in this run
    ParallelBatchCommits,  \* package variable, fixed during a run
    MaxSize, MaxBlocks,    \* Batch.MaxSize, Batch.MaxBlocks
    activeCommits,         \* Batch.activeCommits
    commitError,           \* Batch.commitError
    commitResults,         \* Batch.commitResults: results sent, not received
    blocks,                \* Batch.blocks
    size,                  \* Batch.size
    flushes,               \* the goroutines launched at line 59, in order
    pc,                    \* where the caller thread is
    cur,                   \* the call in progress, or the last one returned
    ncalls,                \* calls made so far
    added,                 \* nodes appended to blocks at line 79, in order
    received               \* results received by the caller, in order

vars == <<callLimit, ParallelBatchCommits, MaxSize, MaxBlocks,
          activeCommits, commitError, commitResults, blocks, size, flushes,
          pc, cur, ncalls, added, received>>

config == <<callLimit, ParallelBatchCommits, MaxSize, MaxBlocks>>

\* The batch as one value, so that the methods are operators on it.
T == [activeCommits |-> activeCommits, commitError |-> commitError,
      commitResults |-> commitResults, blocks |-> blocks, size |-> size,
      flushes |-> flushes]

Store(t) ==
    /\ activeCommits' = t.activeCommits
    /\ commitError' = t.commitError
    /\ commitResults' = t.commitResults
    /\ blocks' = t.blocks
    /\ size' = t.size
    /\ flushes' = t.flushes
    /\ received' = received \o SubSeq(commitResults, 1,
                       Len(commitResults) - Len(t.commitResults))

\* ------------------------------------------------------ processResults
\* line 32 with the error test left out
processResultsCond_IgnoreError(t) == t.activeCommits > 0

\* line 32 with the count compared to 1
processResultsCond_OffByOne(t) == t.activeCommits > 1 /\ t.commitError = Nil

\* line 32: the loop condition
processResultsCond(t) == t.activeCommits > 0 /\ t.commitError = Nil

\* lines 34-38 with the decrement of line 35 left out
processResultsRecv_NoDecrement(t) ==
    [t EXCEPT !.commitResults = Tail(@),
              !.commitError = IF Head(t.commitResults) /= Nil
                              THEN Head(t.commitResults) ELSE @]

\* lines 34-38: one received result
processResultsRecv(t) ==
    [t EXCEPT !.activeCommits = @ - 1,
              !.commitResults = Tail(@),
              !.commitError = IF Head(t.commitResults) /= Nil
                              THEN Head(t.commitResults) ELSE @]

\* lines 31-43: receive while a result is ready; never wait
RECURSIVE processResults(_)
processResults(t) ==
    IF processResultsCond(t) /\ t.commitResults /= <<>>
    THEN processResults(processResultsRecv(t))
    ELSE t

\* --------------------------------------------------------- asyncCommit
\* line 47 with the error test left out
asyncCommitSkip_IgnoreError(t) == Len(t.blocks) = 0

\* line 47 with the emptiness test left out
asyncCommitSkip_IgnoreEmpty(t) == t.commitError /= Nil

\* line 47: nothing to commit, or the batch has failed
asyncCommitSkip(t) == Len(t.blocks) = 0 \/ t.commitError /= Nil

\* line 50 with the test left out: no limit
asyncCommitFull_Never(t) == FALSE

\* line 50 with > for >=
asyncCommitFull_Strict(t) == t.activeCommits > ParallelBatchCommits

\* line 50: the limit of commits in flight is reached
asyncCommitFull(t) == t.activeCommits >= ParallelBatchCommits

\* lines 51-55 with the decrement of line 52 left out
asyncCommitRecv_NoDecrement(t) ==
    [t EXCEPT !.commitResults = Tail(@),
              !.commitError = IF Head(t.commitResults) /= Nil
                              THEN Head(t.commitResults) ELSE @]

\* lines 51-55: the blocking receive, once a result is there
asyncCommitRecv(t) ==
    [t EXCEPT !.activeCommits = @ - 1,
              !.commitResults = Tail(@),
              !.commitError = IF Head(t.commitResults) /= Nil
                              THEN Head(t.commitResults) ELSE @]

\* lines 59-66 with the goroutine started on all blocks but the first
asyncCommitLaunch_DropFirst(t) ==
    [t EXCEPT !.flushes = Append(@, [b |-> Tail(t.blocks), st |-> "running",
                                     err |-> Nil]),
              !.activeCommits = @ + 1,
              !.blocks = <<>>,
              !.size = 0]

\* lines 59-66 with the reset of line 66 left out
asyncCommitLaunch_KeepSize(t) ==
    [t EXCEPT !.flushes = Append(@, [b |-> t.blocks, st |-> "running",
                                     err |-> Nil]),
              !.activeCommits = @ + 1,
              !.blocks = <<>>]

\* lines 59-66 with the reset of line 65 left out
asyncCommitLaunch_KeepBlocks(t) ==
    [t EXCEPT !.flushes = Append(@, [b |-> t.blocks, st |-> "running",
                                     err |-> Nil]),
              !.activeCommits = @ + 1,
              !.size = 0]

\* lines 59-66: start the goroutine on the current blocks, reset the buffer
asyncCommitLaunch(t) ==
    [t EXCEPT !.flushes = Append(@, [b |-> t.blocks, st |-> "running",
                                     err |-> Nil]),
              !.activeCommits = @ + 1,
              !.blocks = <<>>,
              !.size = 0]

\* lines 54-66 with the return of line 56 left out
asyncCommitResume_NoAbort(t) == asyncCommitLaunch(t)

\* lines 54-66: after the receive, give up on an error, launch otherwise
asyncCommitResume(t) ==
    IF t.commitError /= Nil THEN t ELSE asyncCommitLaunch(t)

\* ----------------------------------------------------------------- Add
\* line 75 with the test left out
AddRefuses_Never(t) == FALSE

\* line 75: the batch has failed, the node is refused
AddRefuses(t) == t.commitError /= Nil

\* lines 79-80 with the node put in front
AddAppend_Prepend(t, nd) ==
    [t EXCEPT !.blocks = <<nd>> \o @, !.size = @ + RawDataLen(nd)]

\* lines 79-80
AddAppend(t, nd) ==
    [t EXCEPT !.blocks = Append(@, nd), !.size = @ + RawDataLen(nd)]

\* line 81 with >= for >
AddOverLimit_AtLimit(t) == t.size >= MaxSize \/ Len(t.blocks) >= MaxBlocks

\* line 81 with && for ||
AddOverLimit_Both(t) == t.size > MaxSize /\ Len(t.blocks) > MaxBlocks

\* line 81 with the test of the count left out
AddOverLimit_SizeOnly(t) == t.size > MaxSize

\* line 81
AddOverLimit(t) == t.size > MaxSize \/ Len(t.blocks) > MaxBlocks

\* -------------------------------------------------------------- Commit
\* line 90 with the count compared to 1
CommitCond_OffByOne(t) == t.activeCommits > 1 /\ t.commitError = Nil

\* line 90 with the error test left out
CommitCond_IgnoreError(t) == t.activeCommits > 0

\* line 90: the loop condition
CommitCond(t) == t.activeCommits > 0 /\ t.commitError = Nil

\* lines 91-95: one received result
CommitRecv(t) ==
    [t EXCEPT !.activeCommits = @ - 1,
              !.commitResults = Tail(@),
              !.commitError = IF Head(t.commitResults) /= Nil
                              THEN Head(t.commitResults) ELSE @]

\* ------------------------------------------------------- call records
\* the argument recorded for a call that has none
NoNode == [cid |-> NilCid, len |-> 0]

NoCall == [op |-> "none", after |-> "none", nd |-> NoNode, cid |-> NilCid,
           err |-> Nil, returned |-> TRUE, blocks0 |-> <<>>, size0 |-> 0,
           flushes0 |-> 0, added0 |-> 0,
           error0 |-> Nil, failed0 |-> {}, sent0 |-> {}, waited |-> 0]

\* errors of the bulk writes that have returned an error
FailedWrites(fl) ==
    {fl[i].err : i \in {j \in 1..Len(fl) : fl[j].st /= "running"}} \ {Nil}

\* errors of the results that have been sent on commitResults
FailedSent(fl) ==
    {fl[i].err : i \in {j \in 1..Len(fl) : fl[j].st = "done"}} \ {Nil}

\* the record of a call that starts in the current state
Call(op, nd) ==
    [op |-> op, after |-> cur.op, nd |-> nd, cid |-> NilCid, err |-> Nil,
     returned |-> FALSE, blocks0 |-> blocks, size0 |-> size,
     flushes0 |-> Len(flushes), added0 |-> Len(added),
     error0 |-> commitError, failed0 |-> FailedWrites(flushes),
     sent0 |-> FailedSent(flushes), waited |-> 0]

Return(c, id, e) == [c EXCEPT !.cid = id, !.err = e, !.returned = TRUE]

\* ---------------------------------------------------------------- Init
\* A batch as created: no commit in flight, no error, an empty buffer.
Fresh ==
    /\ activeCommits = 0
    /\ commitError = Nil
    /\ commitResults = <<>>
    /\ blocks = <<>>
    /\ size = 0
    /\ flushes = <<>>
    /\ pc = "idle"
    /\ cur = NoCall
    /\ ncalls = 0
    /\ added = <<>>
    /\ received = <<>>

\* Batches with small limits, driven by a caller that makes MaxCalls calls.
Init ==
    /\ callLimit = MaxCalls
    /\ ParallelBatchCommits \in 1..MaxParallel
    /\ MaxSize \in 0..MaxLimit
    /\ MaxBlocks \in 0..MaxLimit
    /\ Fresh

\* ------------------------------------------------------------- actions
\* Add, lines 72-85, up to its return or to the receive of line 51
Add(nd) ==
    /\ pc = "idle"
    /\ ncalls < callLimit
    /\ ncalls' = ncalls + 1
    /\ LET c == Call("Add", nd)
           t1 == processResults(T)
           t2 == AddAppend(t1, nd)
       IN IF AddRefuses(t1)
          THEN /\ Store(t1)
               /\ cur' = Return(c, NilCid, t1.commitError)
               /\ pc' = "idle"
               /\ added' = added
          ELSE /\ added' = Append(added, nd)
               /\ IF AddOverLimit(t2) /\ ~asyncCommitSkip(t2)
                  THEN IF asyncCommitFull(t2)
                       THEN /\ Store(t2)
                            /\ cur' = c
                            /\ pc' = "Add51"
                       ELSE /\ Store(asyncCommitLaunch(t2))
                            /\ cur' = Return(c, Cid(nd), t2.commitError)
                            /\ pc' = "idle"
                  ELSE /\ Store(t2)
                       /\ cur' = Return(c, Cid(nd), t2.commitError)
                       /\ pc' = "idle"
    /\ UNCHANGED config

\* Add resumes at line 51 when a result can be received, lines 51-68, 84
AddWait ==
    /\ pc = "Add51"
    /\ commitResults /= <<>>
    /\ LET t1 == asyncCommitRecv(T)
           t2 == asyncCommitResume(t1)
           c == [cur EXCEPT !.waited = @ + 1]
       IN /\ Store(t2)
          /\ cur' = Return(c, Cid(cur.nd), t2.commitError)
          /\ pc' = "idle"
    /\ UNCHANGED <<config, ncalls, added>>

\* Commit from line 90 on: loop again at the receive, or return
CommitLoop(t, c) ==
    /\ Store(t)
    /\ IF CommitCond(t)
       THEN /\ cur' = c
            /\ pc' = "Commit91"
       ELSE /\ cur' = Return(c, NilCid, t.commitError)
            /\ pc' = "idle"

\* Commit, lines 88-99, up to its return or to its first blocking receive
Commit ==
    /\ pc = "idle"
    /\ ncalls < callLimit
    /\ ncalls' = ncalls + 1
    /\ LET c == Call("Commit", NoNode)
       IN IF asyncCommitSkip(T)
          THEN CommitLoop(T, c)
          ELSE IF asyncCommitFull(T)
               THEN /\ Store(T)
                    /\ cur' = c
                    /\ pc' = "Commit51"
               ELSE CommitLoop(asyncCommitLaunch(T), c)
    /\ UNCHANGED <<config, added>>

\* Commit resumes at line 51 when a result can be received
CommitWait ==
    /\ pc = "Commit51"
    /\ commitResults /= <<>>
    /\ LET t1 == asyncCommitRecv(T)
           t2 == asyncCommitResume(t1)
       IN CommitLoop(t2, [cur EXCEPT !.waited = @ + 1])
    /\ UNCHANGED <<config, ncalls, added>>

\* Commit resumes at line 91 when a result can be received
CommitDrain ==
    /\ pc = "Commit91"
    /\ commitResults /= <<>>
    /\ CommitLoop(CommitRecv(T), [cur EXCEPT !.waited = @ + 1])
    /\ UNCHANGED <<config, ncalls, added>>

\* line 60: the bulk write of a launched commit returns, with or without
\* an error
FlushWrite(i, e) ==
    /\ flushes[i].st = "running"
    /\ flushes' = [flushes EXCEPT ![i].st = "returned", ![i].err = e]
    /\ UNCHANGED <<config, activeCommits, commitError, commitResults, blocks,
                   size, pc, cur, ncalls, added, received>>

\* line 61: the goroutine sends the result
FlushSend(i) ==
    /\ flushes[i].st = "returned"
    /\ flushes' = [flushes EXCEPT ![i].st = "done"]
    /\ commitResults' = Append(commitResults, flushes[i].err)
    /\ UNCHANGED <<config, activeCommits, commitError, blocks, size, pc, cur,
                   ncalls, added, received>>

Next ==
    \/ \E nd \in Nodes : Add(nd)
    \/ AddWait
    \/ Commit
    \/ CommitWait
    \/ CommitDrain
    \/ \E i \in 1..Len(flushes) : \E e \in Errors \cup {Nil} : FlushWrite(i, e)
    \/ \E i \in 1..Len(flushes) : FlushSend(i)

Spec == Init /\ [][Next]_vars

\* ------------------------------------------------------------ properties
\* the blocks handed to AddBlocks by the first n launched commits, in order
RECURSIVE FlushedBlocks(_, _)
FlushedBlocks(fl, n) ==
    IF n = 0 THEN <<>> ELSE FlushedBlocks(fl, n - 1) \o fl[n].b

RECURSIVE SumLen(_)
SumLen(bs) == IF bs = <<>> THEN 0 ELSE RawDataLen(Head(bs)) + SumLen(Tail(bs))

\* the first error in a sequence of results, Nil if there is none
RECURSIVE FirstError(_)
FirstError(rs) ==
    IF rs = <<>> THEN Nil
    ELSE IF Head(rs) /= Nil THEN Head(rs) ELSE FirstError(Tail(rs))

Running == {i \in 1..Len(flushes) : flushes[i].st = "running"}

\* the last call has returned and was op
Returned(op) == pc = "idle" /\ cur.op = op

\* this step is the start of a call
CallStep == pc = "idle" /\ ncalls' = ncalls + 1

\* C1: when Commit returns no error, every commit ever launched has sent a
\* result without error, activeCommits is 0, the buffer is empty and the
\* blocks handed to AddBlocks are exactly the nodes buffered by Add.
C1_NoSilentLoss ==
    (Returned("Commit") /\ cur.err = Nil) =>
        /\ \A i \in 1..Len(flushes) :
               flushes[i].st = "done" /\ flushes[i].err = Nil
        /\ activeCommits = 0
        /\ commitResults = <<>>
        /\ blocks = <<>>
        /\ size = 0
        /\ FlushedBlocks(flushes, Len(flushes)) = added

\* a Commit that waited returned no error after two commits of three nodes
C1_Witness ==
    /\ Returned("Commit") /\ cur.err = Nil
    /\ cur.waited >= 1
    /\ Len(flushes) = 2
    /\ Len(added) = 3

\* C2: 0 <= activeCommits <= ParallelBatchCommits in every state, and no
\* more than ParallelBatchCommits bulk writes are running.
C2_InFlightBounded ==
    /\ 0 <= activeCommits
    /\ activeCommits <= ParallelBatchCommits
    /\ Cardinality(Running) <= ParallelBatchCommits

\* an Add that needs one more commit waits while all the allowed bulk writes
\* are running
C2_Witness ==
    /\ pc = "Add51"
    /\ activeCommits = ParallelBatchCommits
    /\ Cardinality(Running) = ParallelBatchCommits
    /\ ParallelBatchCommits = 2

\* C3 as stated: once the bulk write of a commit has returned an error, every
\* Add and every Commit called afterwards returns that error, and the Add
\* buffers nothing.
C3_Original ==
    (pc = "idle" /\ cur.op \in {"Add", "Commit"}) =>
        \A e \in cur.failed0 :
            /\ cur.err = e
            /\ cur.op = "Add" => (blocks = cur.blocks0 /\ size = cur.size0)

\* C3: once a failing result has been sent on commitResults, every Add and
\* every Commit called afterwards returns the latched error, which is the
\* first failing result the caller received and one of the errors sent
\* before the call; the Add returns no identifier and buffers nothing.
C3_LatchedError ==
    (pc = "idle" /\ cur.op \in {"Add", "Commit"} /\ cur.sent0 /= {}) =>
        /\ cur.err /= Nil
        /\ cur.err = commitError
        /\ cur.err = FirstError(received)
        /\ cur.err \in cur.sent0
        /\ cur.op = "Add" =>
               /\ cur.cid = NilCid
               /\ blocks = cur.blocks0
               /\ size = cur.size0
               /\ Len(flushes) = cur.flushes0

\* an Add called after two commits failed with different errors, with a
\* node in the buffer
C3_Witness ==
    /\ Returned("Add")
    /\ Cardinality(cur.sent0) = 2
    /\ cur.blocks0 /= <<>>
    /\ cur.err /= Nil

\* C4 as stated: when Commit returns, with or without an error, every commit
\* launched has sent its result, every result has been received and
\* activeCommits is 0.
C4_Original ==
    Returned("Commit") =>
        /\ activeCommits = 0
        /\ \A i \in 1..Len(flushes) : flushes[i].st = "done"
        /\ Len(received) = Len(flushes)

\* C4: when Commit returns no error, every commit launched has sent its
\* result, every result has been received and activeCommits is 0; when it
\* returns an error, it has stopped receiving at the first failing result
\* and activeCommits is the number of results not received, which can be
\* positive.
C4_CommitWaits ==
    Returned("Commit") =>
        /\ cur.err = commitError
        /\ activeCommits = Len(flushes) - Len(received)
        /\ cur.err = Nil =>
               /\ activeCommits = 0
               /\ \A i \in 1..Len(flushes) : flushes[i].st = "done"
        /\ cur.err /= Nil =>
               /\ received /= <<>>
               /\ received[Len(received)] = cur.err
               /\ FirstError(received) = cur.err

\* a Commit that waited returned an error while a bulk write is running
C4_Witness ==
    /\ Returned("Commit")
    /\ cur.err /= Nil
    /\ cur.waited >= 1
    /\ activeCommits > 0
    /\ Running /= {}

\* the error an Add finds latched, or latches in its drain of commitResults
LatchedAtAdd ==
    IF commitError /= Nil THEN commitError ELSE FirstError(commitResults)

\* C5: an Add called with an error latched, or with a failing result ready
\* for its drain, returns that error and no identifier, leaves blocks and
\* size as they are and launches no commit.
C5_RefusedAdd ==
    [][(CallStep /\ cur'.op = "Add" /\ LatchedAtAdd /= Nil) =>
           /\ pc' = "idle"
           /\ cur'.err = LatchedAtAdd
           /\ commitError' = LatchedAtAdd
           /\ cur'.cid = NilCid
           /\ blocks' = blocks
           /\ size' = size
           /\ added' = added
           /\ flushes' = flushes]_vars

\* an Add with a node in the buffer latched an error in its drain and
\* refused its node
C5_Witness ==
    /\ Returned("Add")
    /\ cur.error0 = Nil
    /\ cur.err /= Nil
    /\ cur.cid = NilCid
    /\ cur.blocks0 /= <<>>
    /\ blocks = cur.blocks0

\* C6: once commitError is not nil, no step changes it.
C6_WriteOnce ==
    [][commitError /= Nil => commitError' = commitError]_vars

\* an Add was called with an error latched while a different error waits
\* on commitResults
C6_Witness ==
    /\ Returned("Add")
    /\ cur.error0 /= Nil
    /\ commitError = cur.error0
    /\ commitResults /= <<>>
    /\ Head(commitResults) \notin {Nil, commitError}

\* two commits were launched, the first bulk write succeeded, the second
\* failed
FailsOnSecond ==
    /\ Len(flushes) = 2
    /\ flushes[1].st /= "running" /\ flushes[1].err = Nil
    /\ flushes[2].err /= Nil

\* C7: once an error is latched no step launches a commit; when the second
\* of two bulk writes failed and the error is latched, Commit returns that
\* error at once and the number of commits launched stays two.
C7_FailFast ==
    [][/\ commitError /= Nil => Len(flushes') = Len(flushes)
       /\ (CallStep /\ cur'.op = "Commit" /\ FailsOnSecond
             /\ commitError /= Nil) =>
              /\ pc' = "idle"
              /\ cur'.err = flushes[2].err
              /\ Len(flushes') = 2]_vars

\* Commit was called with blocks in the buffer after the second of two bulk
\* writes failed and the error was latched
C7_Witness ==
    /\ Returned("Commit")
    /\ cur.error0 /= Nil
    /\ cur.blocks0 /= <<>>
    /\ FailsOnSecond

\* C8: a Commit called directly after a Commit that returned r returns r in
\* the same step, launches no commit and receives no result.
C8_CommitIdempotent ==
    [][(CallStep /\ cur.op = "Commit" /\ cur'.op = "Commit") =>
           /\ pc' = "idle"
           /\ cur'.err = cur.err
           /\ cur'.waited = 0
           /\ flushes' = flushes
           /\ activeCommits' = activeCommits
           /\ commitResults' = commitResults
           /\ received' = received]_vars

\* a second Commit in a row returned an error while a bulk write is running
C8_Witness ==
    /\ Returned("Commit")
    /\ cur.after = "Commit"
    /\ cur.err /= Nil
    /\ Running /= {}

\* the nodes buffered so far fit in one window
WithinLimits == SumLen(added) <= MaxSize /\ Len(added) <= MaxBlocks

\* C9 as stated: on a fresh batch, while the Adds stay within MaxSize and
\* MaxBlocks no commit is launched, and the Commit that follows any such
\* sequence of Adds, the empty one included, launches exactly one commit,
\* on exactly the added nodes.
C9_Original ==
    /\ (ncalls = Len(added) /\ WithinLimits) =>
           (flushes = <<>> /\ blocks = added)
    /\ (ncalls = Len(added) + 1 /\ cur.op = "Commit" /\ WithinLimits) =>
           (Len(flushes) = 1 /\ flushes[1].b = added /\ blocks = <<>>)

\* C9: on a fresh batch, while the Adds stay within MaxSize and MaxBlocks no
\* commit is launched; the Commit that follows one or more such Adds
\* launches exactly one commit, on exactly the added nodes; the Commit that
\* follows no Add launches none and returns no error at once.
C9_UnderLimits ==
    /\ (ncalls = Len(added) /\ WithinLimits) =>
           (flushes = <<>> /\ blocks = added)
    /\ (ncalls = Len(added) + 1 /\ cur.op = "Commit" /\ added /= <<>>
          /\ WithinLimits) =>
           (Len(flushes) = 1 /\ flushes[1].b = added /\ blocks = <<>>)
    /\ (ncalls = 1 /\ cur.op = "Commit") =>
           /\ added = <<>>
           /\ flushes = <<>> /\ blocks = <<>>
           /\ pc = "idle"
           /\ cur.err = Nil /\ cur.waited = 0

\* two Adds within the limits, then a Commit that returned
C9_Witness ==
    /\ Returned("Commit")
    /\ ncalls = 3
    /\ Len(added) = 2
    /\ WithinLimits
    /\ Len(flushes) = 1

\* the Add of call record c takes size over MaxSize or blocks over MaxBlocks
Crossing(c) ==
    \/ c.size0 + RawDataLen(c.nd) > MaxSize
    \/ Len(c.blocks0) + 1 > MaxBlocks

NoFailure == \A i \in 1..Len(flushes) : flushes[i].err = Nil

\* C10: while no bulk write has failed, an Add that takes size over MaxSize
\* or blocks over MaxBlocks has launched a commit when it returns, on the
\* blocks buffered since the previous launch up to its own node; an Add that
\* does not has launched none.
C10_FlushAtCrossing ==
    (Returned("Add") /\ NoFailure) =>
        IF Crossing(cur)
        THEN /\ Len(flushes) = cur.flushes0 + 1
             /\ flushes[Len(flushes)].b = Append(cur.blocks0, cur.nd)
             /\ FlushedBlocks(flushes, Len(flushes)) = added
             /\ blocks = <<>>
        ELSE /\ Len(flushes) = cur.flushes0
             /\ blocks = Append(cur.blocks0, cur.nd)

\* an Add crossed a limit with a node already buffered, waited for a slot
\* and launched
C10_Witness ==
    /\ Returned("Add")
    /\ NoFailure
    /\ Crossing(cur)
    /\ cur.blocks0 /= <<>>
    /\ cur.waited = 1

\* C11: the caller waits in Add only at the receive of line 51, reached when
\* its node crossed a limit and, after the drain, activeCommits was at
\* ParallelBatchCommits; the Add then launches nothing and does not return
\* while no result can be received, and leaves the wait by receiving exactly
\* one result; an Add that does not reach line 51 returns at once, so its
\* drain never waits; no step launches a commit beyond the limit.
C11_Backpressure ==
    [][/\ pc' = "Add51" =>
              /\ cur'.op = "Add" /\ ~cur'.returned
              /\ Crossing(cur')
              /\ activeCommits' >= ParallelBatchCommits
              /\ Len(flushes') = cur'.flushes0
              /\ blocks' = Append(cur'.blocks0, cur'.nd)
       /\ (pc = "Add51" /\ commitResults = <<>>) =>
              (pc' = "Add51" /\ Len(flushes') = Len(flushes))
       /\ (pc = "Add51" /\ pc' /= "Add51") =>
              /\ pc' = "idle"
              /\ received' = Append(received, Head(commitResults))
              /\ cur'.waited = 1
       /\ (CallStep /\ cur'.op = "Add") => pc' \in {"idle", "Add51"}
       /\ (CallStep /\ cur'.op = "Add" /\ pc' = "idle") => cur'.waited = 0
       /\ Len(flushes') > Len(flushes) =>
              activeCommits' <= ParallelBatchCommits]_vars

\* with a limit of one, the second crossing Add waited for the result of the
\* first commit and then launched the second
C11_Witness ==
    /\ Returned("Add")
    /\ ParallelBatchCommits = 1
    /\ cur.waited = 1
    /\ cur.flushes0 = 1
    /\ Len(flushes) = 2
    /\ Len(received) = 1

\* C12: the error returned by Add and Commit is the latched one, which is
\* the first failing result received by the caller and the error returned
\* by the bulk write of a commit that has sent its result, whatever the
\* order in which the commits were launched.
C12_FirstReceivedError ==
    /\ commitError = FirstError(received)
    /\ (pc = "idle" /\ cur.op \in {"Add", "Commit"}) =>
           /\ cur.err = FirstError(received)
           /\ cur.err /= Nil =>
                  \E i \in 1..Len(flushes) :
                      flushes[i].st = "done" /\ flushes[i].err = cur.err

\* two commits failed with different errors, the result of the second was
\* sent and received first, and its error is the one returned
C12_Witness ==
    /\ Returned("Commit")
    /\ Len(flushes) = 2
    /\ flushes[1].st = "done" /\ flushes[2].st = "done"
    /\ flushes[1].err /= Nil /\ flushes[2].err /= Nil
    /\ flushes[1].err /= flushes[2].err
    /\ cur.err = flushes[2].err
    /\ commitResults = <<flushes[1].err>>

\* ------------------------------------------------ the scenario of C13
ScenarioCalls == 7  \* calls the caller makes at most in the scenario

\* a node of 400 bytes
Node400 == [cid |-> 401, len |-> 400]

\* MaxSize = 1000, MaxBlocks = 3; ParallelBatchCommits is 2, or 1 so that
\* the waits of line 51 happen as well
InitScenario ==
    /\ callLimit = ScenarioCalls
    /\ ParallelBatchCommits \in {1, 2}
    /\ MaxSize = 1000
    /\ MaxBlocks = 3
    /\ Fresh

\* the caller adds nodes of 400 bytes only and the store never fails
NextScenario ==
    \/ Add(Node400)
    \/ AddWait
    \/ Commit
    \/ CommitWait
    \/ CommitDrain
    \/ \E i \in 1..Len(flushes) : FlushWrite(i, Nil)
    \/ \E i \in 1..Len(flushes) : FlushSend(i)

SpecScenario == InitScenario /\ [][NextScenario]_vars

\* the calls so far are k Adds, each of which buffered its node
OnlyAdds(k) == ncalls = k /\ Len(added) = k

\* C13: with MaxSize = 1000, MaxBlocks = 3, ParallelBatchCommits = 2 and a
\* store that never fails, five Adds of 400-byte nodes launch exactly one
\* commit, at the third Add and on the first three nodes; the fourth and
\* fifth node stay buffered; the Commit that follows launches one commit on
\* these two, and returns no error only when both bulk writes have returned
\* and both results are received: two bulk writes, 2000 bytes in all.
C13_Scenario ==
    ParallelBatchCommits = 2 =>
        /\ \A k \in 0..2 : OnlyAdds(k) =>
               (flushes = <<>> /\ blocks = added /\ size = 400 * k)
        /\ \A k \in 3..5 : (OnlyAdds(k) /\ pc = "idle") =>
               /\ Len(flushes) = 1
               /\ flushes[1].b = SubSeq(added, 1, 3)
               /\ blocks = SubSeq(added, 4, k)
               /\ size = 400 * (k - 3)
               /\ cur.err = Nil
        /\ (ncalls = 6 /\ Len(added) = 5 /\ cur.op = "Commit") =>
               /\ Len(flushes) = 2
               /\ flushes[1].b = SubSeq(added, 1, 3)
               /\ flushes[2].b = SubSeq(added, 4, 5)
               /\ blocks = <<>>
               /\ pc = "idle" =>
                      /\ cur.err = Nil
                      /\ \A i \in 1..2 : flushes[i].st = "done"
                      /\ Len(received) = 2
                      /\ activeCommits = 0
                      /\ SumLen(FlushedBlocks(flushes, Len(flushes))) = 2000

\* five Adds and a Commit that waited for both commits have returned
C13_Witness ==
    /\ ParallelBatchCommits = 2
    /\ MaxSize = 1000 /\ MaxBlocks = 3
    /\ ncalls = 6 /\ Len(added) = 5
    /\ Returned("Commit")
    /\ cur.waited = 2
    /\ Len(flushes) = 2

\* C14: in every state the blocks of the commits launched so far, in launch
\* order, followed by the buffered blocks are the nodes buffered by Add, in
\* Add order: every added node is in exactly one launched commit or in the
\* buffer.
C14_AddOrder ==
    /\ FlushedBlocks(flushes, Len(flushes)) \o blocks = added
    /\ \A i \in 1..Len(flushes) : flushes[i].b /= <<>>

\* two commits of different nodes were launched and a node is buffered
C14_Witness ==
    /\ Len(flushes) = 2
    /\ Len(flushes[1].b) = 2
    /\ flushes[1].b[1] /= flushes[1].b[2]
    /\ blocks /= <<>>
    /\ Len(added) = 4

\* C15: a step that launches a commit leaves blocks empty and size 0 while
\* the new commit is still running, and no step changes the blocks of a
\* commit launched before.
C15_FreshWindow ==
    [][/\ Len(flushes') >= Len(flushes)
       /\ \A i \in 1..Len(flushes) : flushes'[i].b = flushes[i].b
       /\ Len(flushes') > Len(flushes) =>
              /\ Len(flushes') = Len(flushes) + 1
              /\ blocks' = <<>>
              /\ size' = 0
              /\ flushes'[Len(flushes')].st = "running"
              /\ flushes'[Len(flushes')].b /= <<>>]_vars

\* an Add buffered a node while the commit of the previous window is still
\* running
C15_Witness ==
    /\ Returned("Add")
    /\ cur.flushes0 = 1
    /\ Len(flushes) = 1
    /\ flushes[1].st = "running"
    /\ cur.blocks0 = <<>>
    /\ blocks = <<cur.nd>>

\* C16: in every state size is the sum of the lengths of the buffered
\* blocks.
C16_SizeIsSum == size = SumLen(blocks)

\* an Add waited at line 51, received a failing result and gave up: the
\* window with its node is still buffered; a commit was launched before
C16_Witness ==
    /\ Returned("Add")
    /\ cur.waited = 1
    /\ cur.err /= Nil
    /\ Len(blocks) = 2
    /\ size > 0
    /\ Len(flushes) >= 1

\* how many results of rs are e
CountIn(rs, e) == Cardinality({i \in 1..Len(rs) : rs[i] = e})

\* the commits that have not sent their result yet
Unsent == {i \in 1..Len(flushes) : flushes[i].st /= "done"}

\* C17 as stated: every commit that has finished has put exactly one
\* result, its own, on commitResults; activeCommits is the number of commits
\* whose bulk write is still running plus the number of results sent and
\* not received, so that never more than ParallelBatchCommits results wait;
\* a step of a commit goroutine changes nothing of the batch but
\* commitResults, by one result at its end.
C17_Original ==
    /\ [](/\ activeCommits = Cardinality(Running) + Len(commitResults)
          /\ Len(commitResults) <= ParallelBatchCommits
          /\ \A e \in Errors \cup {Nil} :
                 CountIn(received \o commitResults, e) =
                     Cardinality({i \in 1..Len(flushes) :
                         flushes[i].st = "done" /\ flushes[i].err = e}))
    /\ [][/\ \A i \in 1..Len(flushes) :
                 flushes[i].st = "done" => flushes'[i] = flushes[i]
          /\ (flushes' /= flushes /\ Len(flushes') = Len(flushes)) =>
                 /\ UNCHANGED <<activeCommits, commitError, blocks, size,
                                received, pc, cur>>
                 /\ \/ commitResults' = commitResults
                    \/ \E i \in 1..Len(flushes) :
                           /\ flushes[i].st = "returned"
                           /\ flushes'[i].st = "done"
                           /\ commitResults' =
                                  Append(commitResults, flushes[i].err)]_vars

\* C17: every commit that has finished has put exactly one result, its own,
\* on commitResults; activeCommits is the number of commits that have not
\* sent their result, their bulk write running or returned, plus the number
\* of results sent and not received, so that never more than
\* ParallelBatchCommits results wait; a step of a commit goroutine changes
\* nothing of the batch but commitResults, by one result at its end.
C17_Accounting ==
    /\ [](/\ activeCommits = Cardinality(Unsent) + Len(commitResults)
          /\ Len(commitResults) <= ParallelBatchCommits
          /\ \A e \in Errors \cup {Nil} :
                 CountIn(received \o commitResults, e) =
                     Cardinality({i \in 1..Len(flushes) :
                         flushes[i].st = "done" /\ flushes[i].err = e}))
    /\ [][/\ \A i \in 1..Len(flushes) :
                 flushes[i].st = "done" => flushes'[i] = flushes[i]
          /\ (flushes' /= flushes /\ Len(flushes') = Len(flushes)) =>
                 /\ UNCHANGED <<activeCommits, commitError, blocks, size,
                                received, pc, cur>>
                 /\ \/ commitResults' = commitResults
                    \/ \E i \in 1..Len(flushes) :
                           /\ flushes[i].st = "returned"
                           /\ flushes'[i].st = "done"
                           /\ commitResults' =
                                  Append(commitResults, flushes[i].err)]_vars

\* a Commit that waited stopped at a failing result while the result of
\* another commit waits on commitResults
C17_Witness ==
    /\ Returned("Commit")
    /\ cur.err /= Nil
    /\ cur.waited >= 1
    /\ commitResults /= <<>>
    /\ activeCommits = 1

\* ------------------------------------------------- fairness, for C18
\* Every bulk write returns and every goroutine gets to send its result; a
\* caller waiting at a receive takes a result that is there.  The caller is
\* not obliged to make another call.
Fairness ==
    /\ WF_vars(\E i \in 1..Len(flushes) :
                   \E e \in Errors \cup {Nil} : FlushWrite(i, e))
    /\ WF_vars(\E i \in 1..Len(flushes) : FlushSend(i))
    /\ WF_vars(AddWait)
    /\ WF_vars(CommitWait)
    /\ WF_vars(CommitDrain)

LiveCalls == 3  \* calls the caller makes at most under FairSpec

InitLive ==
    /\ callLimit = LiveCalls
    /\ ParallelBatchCommits \in 1..MaxParallel
    /\ MaxSize \in 0..MaxLimit
    /\ MaxBlocks \in 0..MaxLimit
    /\ Fresh

FairSpec == InitLive /\ [][Next]_vars /\ Fairness

\* C18: the caller is at a blocking receive (line 51 or 91) only while
\* activeCommits > 0 and a result is there or still to come, and every Add
\* and every Commit that has been called returns.
C18_NoDeadlock ==
    /\ [](pc \in {"Add51", "Commit51", "Commit91"} =>
              /\ activeCommits > 0
              /\ Unsent /= {} \/ commitResults /= <<>>)
    /\ (pc /= "idle") ~> (pc = "idle")

\* Commit waits at line 51 with nothing to receive while a bulk write is
\* running
C18_Witness ==
    /\ pc = "Commit51"
    /\ commitResults = <<>>
    /\ Running /= {}
    /\ activeCommits = ParallelBatchCommits

\* C19: after an Add that returned no error the buffer is within the limits,
\* Len(blocks) <= MaxBlocks and size <= MaxSize, and no launched commit has
\* more than MaxBlocks + 1 blocks; with MaxBlocks = 0, or MaxSize = 0 and a
\* node that is not empty, such an Add has launched a commit that ends with
\* its node and has left the buffer empty.
C19_BoundedBuffer ==
    /\ \A i \in 1..Len(flushes) : Len(flushes[i].b) <= MaxBlocks + 1
    /\ (Returned("Add") /\ cur.err = Nil) =>
           /\ Len(blocks) <= MaxBlocks
           /\ size <= MaxSize
           /\ (MaxBlocks = 0 \/ (MaxSize = 0 /\ RawDataLen(cur.nd) > 0)) =>
                  /\ blocks = <<>>
                  /\ Len(flushes) = cur.flushes0 + 1
                  /\ flushes[Len(flushes)].b = Append(cur.blocks0, cur.nd)

\* with MaxBlocks = 0 and room in MaxSize, an Add of an empty node launched
\* the second commit at once
C19_Witness ==
    /\ Returned("Add") /\ cur.err = Nil
    /\ MaxBlocks = 0 /\ MaxSize = 2
    /\ RawDataLen(cur.nd) = 0
    /\ blocks = <<>>
    /\ Len(flushes) = 2
    /\ flushes[2].b = <<cur.nd>>

\* C20: a returned Add has returned the identifier of its node exactly when
\* it appended the node, and the nil identifier exactly when it refused the
\* node on a latched error.  It has returned an error with an identifier
\* only after its wait at line 51 received a failing result: activeCommits
\* went down by one, no commit was launched and the window with the node
\* stays buffered; once an error is latched the buffer is never launched.
C20_AddResult ==
    /\ [](Returned("Add") =>
              /\ cur.cid = Cid(cur.nd) <=>
                     (Len(added) = cur.added0 + 1
                        /\ added[Len(added)] = cur.nd)
              /\ cur.cid = NilCid <=>
                     /\ added = SubSeq(added, 1, cur.added0)
                     /\ cur.err /= Nil
                     /\ blocks = cur.blocks0
              /\ (cur.err /= Nil /\ cur.cid /= NilCid) =>
                     /\ cur.error0 = Nil
                     /\ cur.waited = 1
                     /\ received[Len(received)] = cur.err
                     /\ activeCommits = ParallelBatchCommits - 1
                     /\ Len(flushes) = cur.flushes0
                     /\ blocks = Append(cur.blocks0, cur.nd))
    /\ [][commitError /= Nil =>
              (blocks' = blocks /\ Len(flushes') = Len(flushes))]_vars

\* an Add returned its identifier and the error it received at line 51, and
\* its node is in the buffer
C20_Witness ==
    /\ Returned("Add")
    /\ cur.err /= Nil
    /\ cur.cid = Cid(cur.nd)
    /\ cur.waited = 1
    /\ blocks /= <<>>
    /\ blocks[Len(blocks)] = cur.nd

====
